---- MODULE Spec2Model ----
(***************************************************************************)
(* go-tiff32: the Gray32/GrayFloat32 pixel buffers, the colour models and  *)
(* the uncompressed TIFF encoder.                                          *)
(*                                                                         *)
(* A uint32 is the record [hi, lo] of its two 16-bit halves (TLC integers  *)
(* are 32-bit signed, so 0xFFFFFFFF has no integer of its own).  A Go int  *)
(* is an integer; every int of the model stays below 2^31.                 *)
(***************************************************************************)
EXTENDS Integers, Sequences, FiniteSets, TLC

VARIABLES
    heap,       \* the backing array allocated by NewGray32/NewGrayFloat32
    bufs,       \* the buffers made so far: bufs[1] by new, the others by SubImage
    shadow,     \* history: per coordinate, the value of the last set made there
                \* through a buffer whose bounds hold the coordinate
    lastOp,     \* history: the last buffer operation: [op, b, inside], inside
                \* telling whether a set's coordinate was in its buffer's bounds
    nsets,      \* history: number of set calls made
    panicked,   \* an index or slice expression ran out of range
    cin,        \* colour conversion: the colour handed to the model
    cout,       \* colour conversion: the model's result
    m,          \* Encode: the image
    pc,         \* Encode: position in the code
    out,        \* Encode: the bytes the sink has accepted
    calls,      \* Encode: the sink's Write calls, [n, err] each
    ret,        \* Encode: its return value
    imageLen,   \* Encode: imageLen
    y,          \* encodeGray32: the row
    ifdOffset,  \* writeIFD: its parameter
    d,          \* writeIFD: the entries
    n,          \* writeIFD: entries written
    buf,        \* writeIFD: the 12-byte entry buffer
    parea,      \* writeIFD: [len, data] the pointer area, data = parea[:o]
    ifdPos      \* history: number of bytes in the sink when writeIFD began

bufVars == <<heap, bufs, shadow, lastOp, nsets, panicked>>
colVars == <<cin, cout>>
encVars == <<m, pc, out, calls, ret, imageLen, y, ifdOffset, d, n, buf, parea, ifdPos>>
vars == <<heap, bufs, shadow, lastOp, nsets, panicked, cin, cout, m, pc, out, calls, ret, imageLen, y, ifdOffset, d, n, buf, parea, ifdPos>>

----------------------------------------------------------------------------
(* Bounds of the model. *)

\* number of set calls in a run
MaxSets == 2
\* the width of the wide buffer: one more than a 16-bit short holds (the
\* buffer has no rows, so that its states stay small)
WideW == 65536

----------------------------------------------------------------------------
(* uint32 arithmetic. *)

U32(hi, lo) == [hi |-> hi, lo |-> lo]
Zero32 == U32(0, 0)

\* uint32(i) of a non-negative int below 2^31
ToU32(i) == U32((i \div 65536) % 65536, i % 65536)

\* the four base-256 digits of a uint32, least significant first
Limbs(v) == <<v.lo % 256, v.lo \div 256, v.hi % 256, v.hi \div 256>>
FromLimbs(l) == U32(l[3] + 256 * l[4], l[1] + 256 * l[2])

RECURSIVE Norm(_, _, _)
\* carry propagation over column sums; the carry out of the last column is dropped
Norm(cols, k, carry) ==
    IF k > Len(cols) THEN <<>>
    ELSE LET t == cols[k] + carry
         IN <<t % 256>> \o Norm(cols, k + 1, t \div 256)

RECURSIVE ColSum(_, _, _, _)
\* sum of a[i] * b[k+1-i] over the digit pairs of column k
ColSum(a, b, k, i) ==
    IF i > k THEN 0
    ELSE (IF i <= Len(a) /\ k + 1 - i <= Len(b) THEN a[i] * b[k + 1 - i] ELSE 0)
         + ColSum(a, b, k, i + 1)

\* uint32 * uint32 and uint32 + uint32, wrapping at 2^32 as Go's do
Mul32(a, b) == FromLimbs(Norm([k \in 1..4 |-> ColSum(Limbs(a), Limbs(b), k, 1)], 1, 0))
Add32(a, b) == FromLimbs(Norm([k \in 1..4 |-> Limbs(a)[k] + Limbs(b)[k]], 1, 0))

\* Go's v >> s on a uint32: a shift by the width or more gives 0
Shr32(v, s) ==
    IF s >= 32 THEN Zero32
    ELSE IF s >= 16 THEN U32(0, v.hi \div (2 ^ (s - 16)))
    ELSE U32(v.hi \div (2 ^ s), (v.hi % (2 ^ s)) * (2 ^ (16 - s)) + v.lo \div (2 ^ s))

\* byte(v)
Byte(v) == v.lo % 256

----------------------------------------------------------------------------
(* image.Point and image.Rectangle, as the buffers use them. *)

Pt(x, yy) == [X |-> x, Y |-> yy]
Rect(x0, y0, x1, y1) == [Min |-> Pt(x0, y0), Max |-> Pt(x1, y1)]
ZR == Rect(0, 0, 0, 0)
Dx(r) == r.Max.X - r.Min.X
Dy(r) == r.Max.Y - r.Min.Y
Empty(r) == r.Min.X >= r.Max.X \/ r.Min.Y >= r.Max.Y
In(p, r) == r.Min.X <= p.X /\ p.X < r.Max.X /\ r.Min.Y <= p.Y /\ p.Y < r.Max.Y
Max2(a, b) == IF a > b THEN a ELSE b
Min2(a, b) == IF a < b THEN a ELSE b

Intersect(r, s) ==
    LET t == Rect(Max2(r.Min.X, s.Min.X), Max2(r.Min.Y, s.Min.Y),
                  Min2(r.Max.X, s.Max.X), Min2(r.Max.Y, s.Max.Y))
    IN IF Empty(t) THEN ZR ELSE t

----------------------------------------------------------------------------
(* The pixel buffers.  Gray32 and GrayFloat32 have the same fields and the *)
(* same method bodies; kind tells them apart.  Pix is a slice of the       *)
(* backing array: heap[off .. off+len-1] (arr = 0: the nil slice).         *)

Kinds == {"Gray32", "GrayFloat32"}
NilSlice == [arr |-> 0, off |-> 0, len |-> 0]
Gray32Color(v) == [type |-> "Gray32Color", Y |-> v]

\* &Gray32{} / &GrayFloat32{}
EmptyBuf(kind) == [kind |-> kind, Pix |-> NilSlice, Stride |-> 0, Rect |-> ZR]

\* make([]uint32, w*h)
Zeros(len) == [i \in 1..len |-> Zero32]

NewGray32(r) ==
    LET w == Dx(r)
        h == Dy(r)
    IN [kind |-> "Gray32", Pix |-> [arr |-> 1, off |-> 0, len |-> w * h],
        Stride |-> w, Rect |-> r]

NewGrayFloat32(r) ==
    LET w == Dx(r)
        h == Dy(r)
    IN [kind |-> "GrayFloat32", Pix |-> [arr |-> 1, off |-> 0, len |-> w * h],
        Stride |-> w, Rect |-> r]

PixOffset(p, x, yy) == (yy - p.Rect.Min.Y) * p.Stride + (x - p.Rect.Min.X)

\* p.Pix[i] is in range
InRange(p, i) == 0 <= i /\ i < p.Pix.len

\* p.Pix[i]
PixAt(h, p, i) == h[p.Pix.off + i + 1]

\* [panic, c]: the colour at (x, y)
Gray32At(h, p, x, yy) ==
    IF ~In(Pt(x, yy), p.Rect) THEN [panic |-> FALSE, c |-> Gray32Color(Zero32)]
    ELSE LET i == PixOffset(p, x, yy)
         IN IF InRange(p, i) THEN [panic |-> FALSE, c |-> Gray32Color(PixAt(h, p, i))]
            ELSE [panic |-> TRUE, c |-> Gray32Color(Zero32)]

\* SetGray32 without its bounds test
SetGray32_NoBoundsTest(h, p, x, yy, c) ==
    LET i == PixOffset(p, x, yy)
    IN IF InRange(p, i)
       THEN [panic |-> FALSE, heap |-> [h EXCEPT ![p.Pix.off + i + 1] = c.Y]]
       ELSE [panic |-> FALSE, heap |-> h]

\* [panic, heap]: the backing array after p.SetGray32(x, y, c)
SetGray32(h, p, x, yy, c) ==
    IF ~In(Pt(x, yy), p.Rect) THEN [panic |-> FALSE, heap |-> h]
    ELSE LET i == PixOffset(p, x, yy)
         IN IF InRange(p, i)
            THEN [panic |-> FALSE, heap |-> [h EXCEPT ![p.Pix.off + i + 1] = c.Y]]
            ELSE [panic |-> TRUE, heap |-> h]

\* SubImage with Pix: p.Pix in place of p.Pix[i:]
SubImage_NoOffset(p, r) ==
    LET r2 == Intersect(r, p.Rect)
    IN IF Empty(r2) THEN [panic |-> FALSE, buf |-> EmptyBuf(p.kind)]
       ELSE [panic |-> FALSE,
             buf |-> [kind |-> p.kind, Pix |-> p.Pix, Stride |-> p.Stride, Rect |-> r2]]

\* SubImage without its test for an empty intersection
SubImage_NoEmptyTest(p, r) ==
    LET r2 == Intersect(r, p.Rect)
        i == PixOffset(p, r2.Min.X, r2.Min.Y)
    IN IF 0 <= i /\ i <= p.Pix.len
       THEN [panic |-> FALSE,
             buf |-> [kind |-> p.kind,
                      Pix |-> [arr |-> p.Pix.arr, off |-> p.Pix.off + i,
                               len |-> p.Pix.len - i],
                      Stride |-> p.Stride, Rect |-> r2]]
       ELSE [panic |-> TRUE, buf |-> EmptyBuf(p.kind)]

\* [panic, buf]: p.SubImage(r)
SubImage(p, r) ==
    LET r2 == Intersect(r, p.Rect)
    IN IF Empty(r2) THEN [panic |-> FALSE, buf |-> EmptyBuf(p.kind)]
       ELSE LET i == PixOffset(p, r2.Min.X, r2.Min.Y)
            IN IF 0 <= i /\ i <= p.Pix.len
               THEN [panic |-> FALSE,
                     buf |-> [kind |-> p.kind,
                              Pix |-> [arr |-> p.Pix.arr, off |-> p.Pix.off + i,
                                       len |-> p.Pix.len - i],
                              Stride |-> p.Stride, Rect |-> r2]]
               ELSE [panic |-> TRUE, buf |-> EmptyBuf(p.kind)]

----------------------------------------------------------------------------
(* The colour models. *)

\* 1284195221, 2521145802, 489626272 and 1<<31 as uint32
CoefR == U32(19595, 17301)
CoefG == U32(38469, 41418)
CoefB == U32(7471, 6816)
Bias == U32(32768, 0)

\* c.RGBA(), each channel a uint32
RGBA(c) ==
    IF c.type \in {"Gray32Color", "GrayFloat32Color"}
    THEN [r |-> c.Y, g |-> c.Y, b |-> c.Y, a |-> c.Y]
    ELSE [r |-> ToU32(c.r), g |-> ToU32(c.g), b |-> ToU32(c.b), a |-> ToU32(c.a)]

gray32Model(c) ==
    IF c.type = "Gray32Color" THEN c
    ELSE LET q == RGBA(c)
             yv == Shr32(Add32(Add32(Add32(Mul32(CoefR, q.r), Mul32(CoefG, q.g)),
                                     Mul32(CoefB, q.b)), Bias), 32)
         IN Gray32Color(yv)

gray32FloatModel(c) ==
    IF c.type = "Gray32Color" THEN c
    ELSE LET q == RGBA(c)
             yv == Shr32(Add32(Add32(Add32(Mul32(CoefR, q.r), Mul32(CoefG, q.g)),
                                     Mul32(CoefB, q.b)), Bias), 32)
         IN Gray32Color(yv)

----------------------------------------------------------------------------
(* Initial values of the three groups of variables. *)

\* the coordinates set and get are tried on: those of the largest rectangle
\* handed to new, (1,1)-(4,3), and one step around it
Xs == 0..4
Ys == 0..3
Coord == Xs \X Ys

\* sample values: 0x00000001, 0xFFFFFFFF, 0x01020304
Samples == <<U32(0, 1), U32(65535, 65535), U32(258, 772)>>
SetVals == {Samples[1], Samples[2]}

NoOp == [op |-> "none", b |-> 0, inside |-> FALSE]

BufIdle ==
    /\ heap = <<>>
    /\ bufs = <<>>
    /\ shadow = [c \in Coord |-> Zero32]
    /\ lastOp = NoOp
    /\ nsets = 0
    /\ panicked = FALSE

NoColor == [type |-> "none"]

ColIdle ==
    /\ cin = NoColor
    /\ cout = NoColor

NoImage == [kind |-> "none", Pix |-> NilSlice, Stride |-> 0, Rect |-> ZR]

EncIdle ==
    /\ m = NoImage
    /\ pc = "idle"
    /\ out = <<>>
    /\ calls = <<>>
    /\ ret = "nil"
    /\ imageLen = 0
    /\ y = 0
    /\ ifdOffset = 0
    /\ d = <<>>
    /\ n = 0
    /\ buf = <<>>
    /\ parea = [len |-> 0, data |-> <<>>]
    /\ ifdPos = 0

----------------------------------------------------------------------------
(* The buffer operations. *)

\* the rectangles handed to new: without columns, without rows, 1x1, 2x2 and
\* 3x2 with Min = (1,1), so that Rect.Min matters, and 2x2 with Min = (0,0)
NewRects ==
    {Rect(1, 1, 1, 3), Rect(1, 1, 3, 1), Rect(1, 1, 2, 2), Rect(1, 1, 3, 3),
     Rect(1, 1, 4, 3), Rect(0, 0, 2, 2)}

\* the rectangles handed to SubImage: their intersections with (1,1)-(4,3) are
\* all its non-empty sub-rectangles; with the smaller buffers some overlap and
\* some are disjoint; and an empty rectangle
SubRects ==
    {Rect(x0, y0, x1, y1) : x0 \in {0, 2, 3}, y0 \in {0, 2}, x1 \in {2, 3, 4}, y1 \in {2, 3}}
    \cap {r \in [Min : [X : Xs, Y : Ys], Max : [X : Xs, Y : Ys]] :
            (r.Min.X < r.Max.X /\ r.Min.Y < r.Max.Y) \/ r = Rect(2, 2, 2, 2)}

New(kind, r) ==
    /\ bufs = <<>>
    /\ ~panicked
    /\ bufs' = <<IF kind = "Gray32" THEN NewGray32(r) ELSE NewGrayFloat32(r)>>
    /\ heap' = Zeros(Dx(r) * Dy(r))
    /\ lastOp' = [op |-> "new", b |-> 1, inside |-> FALSE]
    /\ UNCHANGED <<shadow, nsets, panicked>>
    /\ UNCHANGED <<colVars, encVars>>

\* bufs[b].SetGray32(x, y, c)
Set(b, x, yy, v) ==
    /\ b \in 1..Len(bufs)
    /\ ~panicked
    /\ nsets < MaxSets
    /\ LET p == bufs[b]
           res == SetGray32(heap, p, x, yy, [type |-> p.kind \o "Color", Y |-> v])
       IN /\ heap' = res.heap
          /\ panicked' = res.panic
          /\ shadow' = IF In(Pt(x, yy), p.Rect) THEN [shadow EXCEPT ![<<x, yy>>] = v]
                        ELSE shadow
    /\ lastOp' = [op |-> "set", b |-> b, inside |-> In(Pt(x, yy), bufs[b].Rect)]
    /\ nsets' = nsets + 1
    /\ UNCHANGED bufs
    /\ UNCHANGED <<colVars, encVars>>

\* bufs[b].SubImage(r); the program keeps the buffer made by new and the
\* latest view, which is a view of either
Sub(b, r) ==
    /\ b \in 1..Len(bufs)
    /\ ~panicked
    /\ LET res == SubImage(bufs[b], r)
       IN /\ bufs' = <<bufs[1], res.buf>>
          /\ panicked' = res.panic
    /\ lastOp' = [op |-> "sub", b |-> b, inside |-> FALSE]
    /\ UNCHANGED <<heap, shadow, nsets>>
    /\ UNCHANGED <<colVars, encVars>>

Init == BufIdle /\ ColIdle /\ EncIdle

Next ==
    \/ \E kind \in Kinds, r \in NewRects : New(kind, r)
    \/ \E b \in 1..2, c \in Coord, v \in SetVals : Set(b, c[1], c[2], v)
    \/ \E b \in 1..2, r \in SubRects : Sub(b, r)

Spec == Init /\ [][Next]_vars

----------------------------------------------------------------------------
(* Colour conversion: the colour is drawn first, then a model is applied. *)

\* channel values of a foreign colour
Chans == {0, 1, 255, 32768, 65535}

Colors ==
    [type : {"RGBA64"}, r : Chans, g : Chans, b : Chans, a : {0, 65535}]
    \cup {[type |-> t, Y |-> Samples[i]] : t \in {"Gray32Color", "GrayFloat32Color"}, i \in 1..3}

ApplyGray32Model ==
    /\ cout = NoColor
    /\ cout' = gray32Model(cin)
    /\ UNCHANGED cin
    /\ UNCHANGED <<bufVars, encVars>>

ApplyGray32FloatModel ==
    /\ cout = NoColor
    /\ cout' = gray32FloatModel(cin)
    /\ UNCHANGED cin
    /\ UNCHANGED <<bufVars, encVars>>

InitColor == BufIdle /\ EncIdle /\ cin \in Colors /\ cout = NoColor

NextColor == ApplyGray32Model \/ ApplyGray32FloatModel

SpecColor == InitColor /\ [][NextColor]_vars

----------------------------------------------------------------------------
(* The encoder. *)

\* The length of one instance of each data type in bytes: lengths[datatype],
\* for the data types 1..5 (the source's array also has a 0 at index 0)
lengths == <<1, 1, 2, 4, 8>>

dtByte == 1
dtASCII == 2
dtShort == 3
dtLong == 4
dtRational == 5

tImageWidth == 256
tImageLength == 257
tBitsPerSample == 258
tCompression == 259
tPhotometricInterpretation == 262
tStripOffsets == 273
tSamplesPerPixel == 277
tRowsPerStrip == 278
tStripByteCounts == 279
tXResolution == 282
tYResolution == 283
tResolutionUnit == 296
tPredictor == 317
tColorMap == 320
tExtraSamples == 338
tSampleFormat == 339

cNone == 1
ifdLen == 12
prNone == 1
pRGB == 2
prHorizontal == 2
sampleFormat_UINT == 1
sampleFormat_IEEEFP == 3

\* the pointer area is allocated and grown in steps of this many bytes
pareaStep == 1024

\* "II\x2A\x00"
magic == <<73, 73, 42, 0>>

\* binary.LittleEndian.PutUint16(p, uint16(v)) and PutUint32(p, v), v a uint32
PutUint16(v) == <<v.lo % 256, v.lo \div 256>>
PutUint32(v) == <<v.lo % 256, v.lo \div 256, v.hi % 256, v.hi \div 256>>

\* uint32 a - b, wrapping: a + (2^32 - 1 - b) + 1
Sub32(a, b) == Add32(Add32(a, U32(65535 - b.hi, 65535 - b.lo)), U32(0, 1))

\* the values the sink's Write may return, and the errors among them
Errs == {"EIO", "ENOSPC"}
Results == {"nil"} \cup Errs

\* the error of a write dropped
returnIfErr_Dropped(res, next) == [pc |-> next, ret |-> "nil"]

\* if err != nil { return err }, else go on at next
returnIfErr(res, next) ==
    IF res # "nil" THEN [pc |-> "returned", ret |-> res]
    ELSE [pc |-> next, ret |-> "nil"]

\* m.Bounds().Size()
Size(r) == Pt(Dx(r), Dy(r))

\* the type switch that sets imageLen
imageLenOf(img, sz) ==
    CASE img.kind = "Gray32" -> sz.X * sz.Y * 4
      [] img.kind = "GrayFloat32" -> sz.X * sz.Y * 4
      [] OTHER -> sz.X * sz.Y * 4

\* encodeGray32's row taken at y*dx, as if rows were packed in memory
encodeRow_Packed(h, pix, dx, stride, yy, predictor) ==
    [panic |-> FALSE,
     bytes |-> [j \in 1..(dx * 4) |->
                  Byte(Shr32(h[pix.off + yy * dx + ((j - 1) \div 4) + 1], 8 * ((j - 1) % 4)))]]

\* one pass of encodeGray32's (and encodeGrayFloat32's) loop over y: whether
\* pix[i] runs out of range, and else the dx*4 bytes of buf handed to w.Write
encodeRow(h, pix, dx, stride, yy, predictor) ==
    LET min == yy * stride + 0
        max == yy * stride + dx
        v(i) == LET v1 == h[pix.off + i + 1]
                    v0 == IF i = min THEN Zero32 ELSE h[pix.off + i]
                IN IF predictor THEN Sub32(v1, v0) ELSE v1
        byteOf(j) == LET i == min + ((j - 1) \div 4)
                         k == (j - 1) % 4
                     IN Byte(Shr32(v(i), 8 * k))
    IN IF min < max /\ (min < 0 \/ max > pix.len)
       THEN [panic |-> TRUE, bytes |-> <<>>]
       ELSE [panic |-> FALSE, bytes |-> [j \in 1..(dx * 4) |-> byteOf(j)]]

Entry(tag, datatype, data) == [tag |-> tag, datatype |-> datatype, data |-> data]

\* pr, colorMap and extraSamples as Encode sets them (predictor is false)
ifdTail(pr, colorMap, extraSamples) ==
    (IF pr # prNone THEN <<Entry(tPredictor, dtShort, <<ToU32(pr)>>)>> ELSE <<>>)
    \o (IF Len(colorMap) # 0 THEN <<Entry(tColorMap, dtShort, colorMap)>> ELSE <<>>)
    \o (IF extraSamples > 0 THEN <<Entry(tExtraSamples, dtShort, <<ToU32(extraSamples)>>)>>
        ELSE <<>>)

\* the entry list Encode builds, in construction order
ifdOf(img, sz, len) ==
    LET gray == img.kind \in Kinds
        predictor == FALSE
        pr == IF predictor THEN prHorizontal ELSE prNone
        photometricInterpretation == IF gray THEN 1 ELSE pRGB
        samplesPerPixel == IF gray THEN 1 ELSE 4
        bitsPerSample == IF gray THEN <<ToU32(32)>>
                         ELSE <<ToU32(8), ToU32(8), ToU32(8), ToU32(8)>>
        extraSamples == IF gray THEN 0 ELSE 1
        colorMap == <<>>
        SampleFormat == IF img.kind = "GrayFloat32" THEN sampleFormat_IEEEFP
                        ELSE sampleFormat_UINT
    IN << Entry(tImageWidth, dtShort, <<ToU32(sz.X)>>),
          Entry(tImageLength, dtShort, <<ToU32(sz.Y)>>),
          Entry(tBitsPerSample, dtShort, bitsPerSample),
          Entry(tCompression, dtShort, <<ToU32(cNone)>>),
          Entry(tPhotometricInterpretation, dtShort, <<ToU32(photometricInterpretation)>>),
          Entry(tStripOffsets, dtLong, <<ToU32(8)>>),
          Entry(tSamplesPerPixel, dtShort, <<ToU32(samplesPerPixel)>>),
          Entry(tRowsPerStrip, dtShort, <<ToU32(sz.Y)>>),
          Entry(tStripByteCounts, dtLong, <<ToU32(len)>>),
          Entry(tSampleFormat, dtShort, <<ToU32(SampleFormat)>>),
          Entry(tXResolution, dtRational, <<ToU32(72), ToU32(1)>>),
          Entry(tYResolution, dtRational, <<ToU32(72), ToU32(1)>>),
          Entry(tResolutionUnit, dtShort, <<ToU32(2)>>) >>
       \o ifdTail(pr, colorMap, extraSamples)

\* byTag.Less
Less(a, b) == a.tag < b.tag

RECURSIVE InsertByTag(_, _)
InsertByTag(sorted, e) ==
    IF sorted = <<>> THEN <<e>>
    ELSE IF Less(e, Head(sorted)) THEN <<e>> \o sorted
    ELSE <<Head(sorted)>> \o InsertByTag(Tail(sorted), e)

RECURSIVE SortFrom(_, _, _)
SortFrom(es, k, acc) ==
    IF k > Len(es) THEN acc ELSE SortFrom(es, k + 1, InsertByTag(acc, es[k]))

\* the entries left in construction order
sortByTag_Unsorted(es) == es

\* sort.Sort(byTag(d))
sortByTag(es) == SortFrom(es, 1, <<>>)

RECURSIVE putDataFrom(_, _, _)
\* the bytes ifdEntry.putData writes for data[k..], in order
putDataFrom(e, k, acc) ==
    IF k > Len(e.data) THEN acc
    ELSE LET v == e.data[k]
             w == CASE e.datatype \in {dtByte, dtASCII} -> <<Byte(v)>>
                    [] e.datatype = dtShort -> PutUint16(v)
                    [] e.datatype \in {dtLong, dtRational} -> PutUint32(v)
                    [] OTHER -> <<>>
         IN putDataFrom(e, k + 1, acc \o w)

\* e.putData(p): p with its first bytes overwritten
putData(e, p) ==
    LET w == putDataFrom(e, 1, <<>>)
    IN [i \in 1..Len(p) |-> IF i <= Len(w) THEN w[i] ELSE p[i]]

RECURSIVE growTo(_, _)
\* the loop that finds the pointer area's new length
growTo(newlen, need) == IF need > newlen THEN growTo(newlen + pareaStep, need) ELSE newlen

\* one pass of writeIFD's loop, for entry ent: [buf, parea]
entryStep(ent, b, pa, pstart) ==
    LET o == Len(pa.data)
        count0 == Len(ent.data)
        count == IF ent.datatype = dtRational THEN count0 \div 2 ELSE count0
        b8 == [i \in 1..ifdLen |->
                 IF i <= 2 THEN PutUint16(ToU32(ent.tag))[i]
                 ELSE IF i <= 4 THEN PutUint16(ToU32(ent.datatype))[i - 2]
                 ELSE IF i <= 8 THEN PutUint32(ToU32(count))[i - 4]
                 ELSE b[i]]
        datalen == count * lengths[ent.datatype]
    IN IF datalen <= 4
       THEN [buf |-> SubSeq(b8, 1, 8) \o putData(ent, SubSeq(b8, 9, 12)), parea |-> pa]
       ELSE [buf |-> SubSeq(b8, 1, 8) \o PutUint32(ToU32(pstart + o)),
             parea |-> [len |-> IF o + datalen > pa.len
                                THEN growTo(pa.len + pareaStep, o + datalen) ELSE pa.len,
                        data |-> pa.data \o putData(ent, [i \in 1..datalen |-> 0])]]

\* the sink's Write(bytes) returning res
Write(bytes, res) ==
    /\ out' = IF res = "nil" THEN out \o bytes ELSE out
    /\ calls' = Append(calls, [n |-> Len(bytes), err |-> res])

Goto(r) == pc' = r.pc /\ ret' = r.ret

\* io.WriteString(w, "II\x2A\x00")
WriteMagic(res) ==
    /\ pc = "start"
    /\ Write(magic, res)
    /\ Goto(returnIfErr(res, "offset"))
    /\ UNCHANGED <<m, imageLen, y, ifdOffset, d, n, buf, parea, ifdPos>>
    /\ UNCHANGED <<bufVars, colVars>>

\* binary.Write(w, binary.LittleEndian, uint32(imageLen+8))
WriteOffset(res) ==
    /\ pc = "offset"
    /\ imageLen' = imageLenOf(m, Size(m.Rect))
    /\ Write(PutUint32(ToU32(imageLen' + 8)), res)
    /\ Goto(returnIfErr(res, "raster"))
    /\ y' = 0
    /\ UNCHANGED <<m, ifdOffset, d, n, buf, parea, ifdPos>>
    /\ UNCHANGED <<bufVars, colVars>>

\* encodeGray32 / encodeGrayFloat32: the write of row y
WriteRow(res) ==
    /\ pc = "raster"
    /\ m.kind \in Kinds
    /\ y < Size(m.Rect).Y
    /\ LET row == encodeRow(heap, m.Pix, Size(m.Rect).X, m.Stride, y, FALSE)
       IN IF row.panic
          THEN /\ pc' = "panic"
               /\ UNCHANGED <<out, calls, ret, y>>
          ELSE /\ Write(row.bytes, res)
               /\ Goto(returnIfErr(res, "raster"))
               /\ y' = y + 1
    /\ UNCHANGED <<m, imageLen, ifdOffset, d, n, buf, parea, ifdPos>>
    /\ UNCHANGED <<bufVars, colVars>>

\* the raster is done (or m is of another type): Encode builds the entries and
\* calls writeIFD(w, imageLen+8, ifd), which sorts them and writes their number
WriteCount(res) ==
    /\ pc = "raster"
    /\ m.kind \in Kinds => y >= Size(m.Rect).Y
    /\ ifdOffset' = imageLen + 8
    /\ d' = sortByTag(ifdOf(m, Size(m.Rect), imageLen))
    /\ buf' = [i \in 1..ifdLen |-> 0]
    /\ parea' = [len |-> pareaStep, data |-> <<>>]
    /\ n' = 0
    /\ ifdPos' = Len(out)
    /\ Write(PutUint16(ToU32(Len(d'))), res)
    /\ Goto(returnIfErr(res, "entries"))
    /\ UNCHANGED <<m, imageLen, y>>
    /\ UNCHANGED <<bufVars, colVars>>

\* writeIFD: entry d[n+1]
WriteEntry(res) ==
    /\ pc = "entries"
    /\ n < Len(d)
    /\ LET st == entryStep(d[n + 1], buf, parea, ifdOffset + ifdLen * Len(d) + 6)
       IN /\ buf' = st.buf
          /\ parea' = st.parea
          /\ Write(st.buf, res)
    /\ Goto(returnIfErr(res, "entries"))
    /\ n' = n + 1
    /\ UNCHANGED <<m, imageLen, y, ifdOffset, d, ifdPos>>
    /\ UNCHANGED <<bufVars, colVars>>

\* writeIFD: binary.Write(w, enc, uint32(0))
WriteNextIFD(res) ==
    /\ pc = "entries"
    /\ n >= Len(d)
    /\ Write(PutUint32(ToU32(0)), res)
    /\ Goto(returnIfErr(res, "parea"))
    /\ UNCHANGED <<m, imageLen, y, ifdOffset, d, n, buf, parea, ifdPos>>
    /\ UNCHANGED <<bufVars, colVars>>

\* writeIFD: _, err := w.Write(parea[:o]); return err
WriteParea(res) ==
    /\ pc = "parea"
    /\ Write(parea.data, res)
    /\ pc' = "returned"
    /\ ret' = res
    /\ UNCHANGED <<m, imageLen, y, ifdOffset, d, n, buf, parea, ifdPos>>
    /\ UNCHANGED <<bufVars, colVars>>

\* Encode is handed one of: a buffer made by new and filled by set calls, a
\* view of such a buffer, an image of another type
EncSamples == Samples \o <<Zero32>>
Fill(len, k) == [i \in 1..len |-> EncSamples[((i + k) % 4) + 1]]
WideRect == Rect(0, 0, WideW, 0)
NewKind(kind, r) == IF kind = "Gray32" THEN NewGray32(r) ELSE NewGrayFloat32(r)

ParentInput(kind, r, k) ==
    LET p == NewKind(kind, r)
    IN [heap |-> Fill(p.Pix.len, k), bufs |-> <<p>>, m |-> p]

ViewInput(kind, r, k, r2) ==
    LET p == NewKind(kind, r)
        v == SubImage(p, r2).buf
    IN [heap |-> Fill(p.Pix.len, k), bufs |-> <<p, v>>, m |-> v]

OtherInput(r) ==
    [heap |-> <<>>, bufs |-> <<>>,
     m |-> [kind |-> "Other", Pix |-> NilSlice, Stride |-> 0, Rect |-> r]]

EncInputs ==
    {ParentInput(kind, r, k) : kind \in Kinds, r \in NewRects, k \in 0..1}
    \cup {ParentInput(kind, WideRect, 0) : kind \in Kinds}
    \cup {ViewInput(kind, r, k, r2) : kind \in Kinds, r \in NewRects, k \in 0..1, r2 \in SubRects}
    \cup {OtherInput(r) : r \in NewRects \cup {WideRect}}

InitEnc ==
    /\ \E i \in EncInputs : heap = i.heap /\ bufs = i.bufs /\ m = i.m
    /\ shadow = [c \in Coord |-> Zero32]
    /\ lastOp = NoOp
    /\ nsets = 0
    /\ panicked = FALSE
    /\ ColIdle
    /\ pc = "start"
    /\ out = <<>>
    /\ calls = <<>>
    /\ ret = "nil"
    /\ imageLen = 0
    /\ y = 0
    /\ ifdOffset = 0
    /\ d = <<>>
    /\ n = 0
    /\ buf = <<>>
    /\ parea = [len |-> 0, data |-> <<>>]
    /\ ifdPos = 0

NextEnc ==
    \/ \E res \in Results : WriteMagic(res)
    \/ \E res \in Results : WriteOffset(res)
    \/ \E res \in Results : WriteRow(res)
    \/ \E res \in Results : WriteCount(res)
    \/ \E res \in Results : WriteEntry(res)
    \/ \E res \in Results : WriteNextIFD(res)
    \/ \E res \in Results : WriteParea(res)

SpecEnc == InitEnc /\ [][NextEnc]_vars

----------------------------------------------------------------------------
(* Properties of the buffers, checked under Spec. *)

GetAt(p, c) == Gray32At(heap, p, c[1], c[2])
Got(v) == [panic |-> FALSE, c |-> Gray32Color(v)]

\* get on p returns, inside p's bounds, the value of the last set made at that
\* coordinate through a buffer holding it (zero if none), and zero outside
ReturnsLastSet(p) ==
    \A c \in Coord :
        GetAt(p, c) = Got(IF In(Pt(c[1], c[2]), p.Rect) THEN shadow[c] ELSE Zero32)

\* C3: after any sequence of set calls on a buffer made by new(R), get(x,y)
\* inside R returns the value of the most recent set at (x,y), or zero if
\* there was none; a set outside R changes no sample (it is no set at any
\* coordinate of R, and every sample is read back as before) and a get
\* outside R returns the zero colour.
C3_GetReturnsLastSet ==
    bufs # <<>> => (~panicked /\ ReturnsLastSet(bufs[1]))

\* C3: two sets were made, the last one on the new buffer outside its bounds,
\* and a get inside returns 0xFFFFFFFF
C3_Witness ==
    /\ nsets = 2
    /\ lastOp.op = "set" /\ lastOp.b = 1 /\ ~lastOp.inside
    /\ \E c \in Coord : GetAt(bufs[1], c) = Got(Samples[2])

\* C4: for a view made by subImage(R2), R2 non-empty and inside the parent's
\* R, after any interleaving of sets on parent and view, get on the parent and
\* get on the view agree at every (x,y) of R2, and a set through the view
\* outside R2 changes no sample of the parent (the parent still reads back,
\* everywhere, the last value set inside bounds).
C4_ViewSharesSamples ==
    (Len(bufs) = 2 /\ ~Empty(bufs[2].Rect)) =>
        /\ ~panicked
        /\ \A c \in Coord :
              In(Pt(c[1], c[2]), bufs[2].Rect) => GetAt(bufs[1], c) = GetAt(bufs[2], c)
        /\ \A c \in Coord :
              In(Pt(c[1], c[2]), bufs[1].Rect) => GetAt(bufs[1], c) = Got(shadow[c])

\* C4: a view that starts inside the parent's array; two sets were made, the
\* last one through the view outside the view's bounds, and the view returns
\* 0xFFFFFFFF inside
C4_Witness ==
    /\ Len(bufs) = 2
    /\ bufs[2].Pix.off > 0
    /\ nsets = 2
    /\ lastOp.op = "set" /\ lastOp.b = 2 /\ ~lastOp.inside
    /\ \E c \in Coord : In(Pt(c[1], c[2]), bufs[2].Rect) /\ GetAt(bufs[2], c) = Got(Samples[2])

\* C9: every buffer reachable from new(R) by a chain of subImage calls has
\* len(samples) >= (height-1)*stride + width, pixelOffset(x,y) indexes samples
\* for every (x,y) in its bounds, and no get, set or subImage runs out of range.
C9_SamplesCoverBounds ==
    /\ ~panicked
    /\ \A b \in 1..Len(bufs) :
          LET p == bufs[b]
          IN /\ p.Pix.len >= (Dy(p.Rect) - 1) * p.Stride + Dx(p.Rect)
             /\ p.Pix.arr = 1 => p.Pix.off + p.Pix.len <= Len(heap)
             /\ \A c \in Coord :
                   In(Pt(c[1], c[2]), p.Rect) => InRange(p, PixOffset(p, c[1], c[2]))

\* C9: a view of a view, narrower than its stride and starting inside the array
C9_Witness ==
    /\ lastOp.op = "sub" /\ lastOp.b = 2
    /\ ~Empty(bufs[2].Rect)
    /\ bufs[2].Stride > Dx(bufs[2].Rect)
    /\ bufs[2].Pix.off > 0

----------------------------------------------------------------------------
(* Properties of the colour models, checked under SpecColor. *)

\* exact arithmetic on eight base-256 digits
Mul64(a, b) == Norm([k \in 1..8 |-> ColSum(Limbs(a), Limbs(b), k, 1)], 1, 0)
Add64(a, b) == Norm([k \in 1..8 |-> a[k] + b[k]], 1, 0)

\* floor((1284195221*r + 2521145802*g + 489626272*b + 2^31) / 2^32)
Luma(r, g, b) ==
    LET sum == Add64(Add64(Add64(Mul64(CoefR, ToU32(r)), Mul64(CoefG, ToU32(g))),
                           Mul64(CoefB, ToU32(b))),
                     Limbs(Bias) \o <<0, 0, 0, 0>>)
    IN U32(sum[7] + 256 * sum[8], sum[5] + 256 * sum[6])

\* C7: for a colour that is not buffer-native, with channels r, g, b in
\* 0..65535 and any alpha, the conversion returns
\* Y = floor((1284195221*r + 2521145802*g + 489626272*b + 2^31) / 2^32).
C7_ConversionIsLuma ==
    (cout # NoColor /\ cin.type = "RGBA64") => cout = Gray32Color(Luma(cin.r, cin.g, cin.b))

----------------------------------------------------------------------------
(* Properties of the encoder, checked under SpecEnc. *)

\* a reader of the stream: the uint16 and the uint32 at byte offset pos
Dec16(s, pos) == s[pos + 1] + 256 * s[pos + 2]
Dec32(s, pos) == U32(s[pos + 3] + 256 * s[pos + 4], s[pos + 1] + 256 * s[pos + 2])
AsInt(v) == v.hi * 65536 + v.lo

\* Encode returned nil
Done == pc = "returned" /\ ret = "nil"

\* C1: for a Gray32 or GrayFloat32 buffer, the bytes between the 8-byte header
\* and the IFD are the 4-byte little-endian encodings of the samples of the
\* buffer's rectangle, row by row from the top: W*H*4 bytes, no padding, also
\* when the stride is larger than the width.
C1_RasterIsRowMajorSamples ==
    (Done /\ m.kind \in Kinds) =>
        LET W == Dx(m.Rect)
            H == Dy(m.Rect)
        IN /\ ifdPos = 8 + W * H * 4
           /\ \A r \in 0..(H - 1), c \in 0..(W - 1) :
                 Got(Dec32(out, 8 + 4 * (r * W + c)))
                   = Gray32At(heap, m, m.Rect.Min.X + c, m.Rect.Min.Y + r)

\* C1: a view of two rows, narrower than its stride, was encoded
C1_Witness ==
    /\ Done
    /\ m.kind \in Kinds
    /\ Dy(m.Rect) = 2
    /\ Dx(m.Rect) >= 1
    /\ m.Stride > Dx(m.Rect)
    /\ Dec32(out, 8) # Dec32(out, 8 + 4 * Dx(m.Rect))

\* C2: in every Encode call that returns without error, whatever the type of
\* the image, the uint32 at bytes 4-7 equals 8 plus the number of raster
\* bytes written: the position at which the IFD begins.
C2_HeaderOffsetIsIfdPosition ==
    Done => Dec32(out, 4) = ToU32(ifdPos)

\* the IFD as a reader finds it, at the position where it was written
NumEntries == Dec16(out, ifdPos)
EntryAt(i) == ifdPos + 2 + ifdLen * (i - 1)
TagOf(i) == Dec16(out, EntryAt(i))
TypeOf(i) == Dec16(out, EntryAt(i) + 2)
CountOf(i) == AsInt(Dec32(out, EntryAt(i) + 4))
ShortOf(i) == Dec16(out, EntryAt(i) + 8)
IsShort(tag, val) ==
    \E i \in 1..NumEntries : TagOf(i) = tag /\ TypeOf(i) = dtShort /\ CountOf(i) = 1 /\ ShortOf(i) = val

\* C5: for every W x H Gray32 or GrayFloat32 buffer, the IFD holds ImageWidth
\* = W, ImageLength = H and RowsPerStrip = H, each as a 16-bit short.
C5_DimensionsRecovered ==
    (Done /\ m.kind \in Kinds) =>
        /\ IsShort(tImageWidth, Dx(m.Rect))
        /\ IsShort(tImageLength, Dy(m.Rect))
        /\ IsShort(tRowsPerStrip, Dy(m.Rect))

\* C6: when a write to the sink fails, Encode makes no further write and
\* returns that error unchanged.
C6_FirstFailureIsReturned ==
    /\ \A i \in 1..(Len(calls) - 1) : calls[i].err = "nil"
    /\ (calls # <<>> /\ calls[Len(calls)].err # "nil") =>
          (pc = "returned" /\ ret = calls[Len(calls)].err)
    /\ (pc = "returned" /\ ret # "nil") =>
          (calls # <<>> /\ calls[Len(calls)].err = ret)

\* C6: the write of an IFD entry failed and Encode returned its error
C6_Witness ==
    /\ pc = "returned"
    /\ ret = "ENOSPC"
    /\ n >= 3
    /\ Len(calls) >= 7

\* the entries that are in the stream in full
EntriesWritten ==
    IF d = <<>> \/ Len(out) < ifdPos + 2 THEN 0
    ELSE Min2(NumEntries, (Len(out) - ifdPos - 2) \div ifdLen)

\* C8: the tags of the IFD entries, read in stream order, are strictly
\* ascending, whatever the order in which the entry list was built.
C8_TagsAscending ==
    \A i \in 1..EntriesWritten, j \in 1..EntriesWritten : i < j => TagOf(i) < TagOf(j)

\* C8: an image of another type: ExtraSamples (338) was appended last and
\* precedes SampleFormat (339) in the stream
C8_Witness ==
    /\ Done
    /\ m.kind = "Other"
    /\ EntriesWritten = 14
    /\ TagOf(13) = tExtraSamples
    /\ TagOf(14) = tSampleFormat

\* the values of entry i, read back from the stream at offset pos
ValuesAt(i, pos) ==
    [k \in 1..Len(d[i].data) |->
        IF d[i].datatype = dtShort THEN ToU32(Dec16(out, pos + 2 * (k - 1)))
        ELSE Dec32(out, pos + 4 * (k - 1))]
\* the payload of entry i: its values, each cut to the width of its data type
Payload(i) ==
    [k \in 1..Len(d[i].data) |->
        IF d[i].datatype = dtShort THEN U32(0, d[i].data[k].lo) ELSE d[i].data[k]]
DataLen(i) == CountOf(i) * lengths[TypeOf(i)]
Pointer(i) == AsInt(Dec32(out, EntryAt(i) + 8))
Long(i) == DataLen(i) > 4

\* C10: every entry with a payload longer than 4 bytes holds the absolute
\* offset at which its payload appears in the stream; the payloads lie after
\* the next-IFD terminator, in entry order and without overlap; every other
\* entry holds its payload inline.
C10_PointersReachPayloads ==
    Done =>
        /\ NumEntries = Len(d)
        /\ \A i \in 1..NumEntries :
              IF Long(i)
              THEN /\ Pointer(i) >= EntryAt(NumEntries + 1) + 4
                   /\ Pointer(i) + DataLen(i) <= Len(out)
                   /\ ValuesAt(i, Pointer(i)) = Payload(i)
              ELSE ValuesAt(i, EntryAt(i) + 8) = Payload(i)
        /\ \A i \in 1..NumEntries, j \in 1..NumEntries :
              (Long(i) /\ Long(j) /\ i < j) => Pointer(i) + DataLen(i) <= Pointer(j)

====
